---- MODULE Spec2Model ----
(***************************************************************************)
(* A model of mini_praw.py: the unauthenticated Reddit client.             *)
(*                                                                         *)
(* These specifications share the variables:                               *)
(*   SpecMedia     _extract_media, a pure function, applied to every       *)
(*                 attribute bag of a bounded family;                      *)
(*   Spec          the three entry points (search_subreddits, the listing  *)
(*                 generator behind hot/new/top, submission with the       *)
(*                 comment walk);                                          *)
(*   SpecRun       the submission entry point alone, a call, once made,    *)
(*                 running on;                                             *)
(*   SpecThrottle  Reddit._get with its clock.                             *)
(*                                                                         *)
(* Python values: a str is a sequence of one-character strings, None is    *)
(* the one-element sequence <<"None">>, an optional dict is a sequence of  *)
(* at most one record.                                                     *)
(***************************************************************************)
EXTENDS Integers, Sequences, FiniteSets, TLC

VARIABLES
    \* ---- _extract_media (SpecMedia)
    info,             \* the attribute bag handed to _extract_media
    media_result,     \* its return value, NotCalled before the call
    \* ---- the client and the call in progress (Spec)
    return_full,      \* Reddit.return_full
    op,               \* the entry point called: "search", "listing", "submission"
    pc,               \* where the call stands: "idle", "loop", "fetch", "walk", "done", "raised"
    full_arg,         \* the full argument as passed: "None", "True", "False"
    full,             \* the local full after `if full is None: full = ...`
    limit,            \* the limit argument
    remaining,        \* the local remaining
    after,            \* the local after
    data,             \* the page last returned by _get
    results,          \* search_subreddits: the local results
    requests,         \* the requests this call has issued, each with its params
    status,           \* the status of the last response: "none", "ok", "error"
    delivered,        \* what the caller has received: the records yielded so far
                      \* (listing), the list returned (search), the dict returned
                      \* (submission)
    served,           \* how many items or nodes the server has handed out in this call
    plain,            \* the same call made with full=False against the same responses:
                      \* where it stands, its locals, its requests, what its caller has
                      \* received
    more_limit,       \* submission: the more_limit argument
    more_used,        \* _flatten_comments: more_used
    comments,         \* _flatten_comments: comments
    stack,            \* the frames of walk, innermost last
    submission_dict,  \* submission: the dict under construction
    notes,            \* for each element of comments, where its node stood in the tree
    more_skipped,     \* how many placeholders the walk passed over for lack of budget
    last_child,       \* walk: the child the for loop read last, its kind and, for a
                      \* placeholder, the child ids it holds
    \* ---- Reddit._get (SpecThrottle)
    now,              \* the wall clock, time.time()
    last_request_ts,  \* Reddit._last_request_ts
    request_interval, \* Reddit.request_interval
    sends,            \* when the last two requests went out
    outcomes,         \* how the last two requests ended: "ok", "error", "exception"
    last_path         \* the call site of the last request

mediaVars == <<info, media_result>>

callVars ==
    <<op, pc, full_arg, full, limit, remaining, after, data, results, requests,
      status, delivered, served, plain>>

walkVars ==
    <<more_limit, more_used, comments, stack, submission_dict, notes, more_skipped,
      last_child>>

throttleVars == <<now, last_request_ts, request_interval, sends, outcomes, last_path>>

vars == <<mediaVars, return_full, callVars, walkVars, throttleVars>>

-----------------------------------------------------------------------------
(* Python values *)

None == <<"None">>

\* bool(x) of an optional str: None and "" are falsy.
Truthy(s) == s # None /\ s # <<>>

UpperCase == <<"A","B","C","D","E","F","G","H","I","J","K","L","M",
               "N","O","P","Q","R","S","T","U","V","W","X","Y","Z">>
LowerCase == <<"a","b","c","d","e","f","g","h","i","j","k","l","m",
               "n","o","p","q","r","s","t","u","v","w","x","y","z">>

\* str.lower(), one character
LowerChar(c) ==
    IF \E i \in 1..Len(UpperCase) : UpperCase[i] = c
    THEN LowerCase[CHOOSE i \in 1..Len(UpperCase) : UpperCase[i] = c]
    ELSE c

\* str.lower()
Lower(s) == [i \in 1..Len(s) |-> LowerChar(s[i])]

\* str.startswith(prefix)
StartsWith(s, prefix) ==
    /\ Len(s) >= Len(prefix)
    /\ SubSeq(s, 1, Len(prefix)) = prefix

\* str.endswith(suffix)
EndsWith(s, suffix) ==
    /\ Len(s) >= Len(suffix)
    /\ SubSeq(s, Len(s) - Len(suffix) + 1, Len(s)) = suffix

\* str.replace(old, new): leftmost, non-overlapping occurrences
RECURSIVE Replace(_, _, _)
Replace(s, old, new) ==
    IF s = <<>> THEN <<>>
    ELSE IF StartsWith(s, old)
         THEN new \o Replace(SubSeq(s, Len(old) + 1, Len(s)), old, new)
         ELSE <<s[1]>> \o Replace(Tail(s), old, new)

\* u.replace("&amp;", "&")
Unescape(u) == Replace(u, <<"&","a","m","p",";">>, <<"&">>)

-----------------------------------------------------------------------------
(* _extract_media *)

MEDIA_EXTS ==
    << <<".","j","p","g">>, <<".","j","p","e","g">>, <<".","p","n","g">>,
       <<".","g","i","f">>, <<".","m","p","4">>, <<".","w","e","b","m">> >>

\* any(url.lower().endswith(ext) for ext in [...])
HasMediaExt(url) ==
    \E k \in 1..Len(MEDIA_EXTS) : EndsWith(Lower(url), MEDIA_EXTS[k])

\* 1) the direct link: url = info.get("url") or ""
DirectCandidates(i) ==
    LET url == IF Truthy(i.url) THEN i.url ELSE <<>>
    IN  IF HasMediaExt(url) THEN <<url>> ELSE <<>>

\* the inner loop over img.get("resolutions") or []
RECURSIVE ResolutionCandidates(_)
ResolutionCandidates(rs) ==
    IF rs = <<>> THEN <<>>
    ELSE (IF Truthy(Head(rs)) THEN <<Unescape(Head(rs))>> ELSE <<>>)
         \o ResolutionCandidates(Tail(rs))

\* one pass of the loop body over an image entry: its source, then its resolutions
ImageCandidates(img) ==
    (IF Truthy(img.source) THEN <<Unescape(img.source)>> ELSE <<>>)
    \o ResolutionCandidates(img.resolutions)

RECURSIVE ImagesCandidates(_)
ImagesCandidates(imgs) ==
    IF imgs = <<>> THEN <<>>
    ELSE ImageCandidates(Head(imgs)) \o ImagesCandidates(Tail(imgs))

\* 2) preview images: only when preview is a dict
PreviewCandidates(i) ==
    IF i.preview = <<>> THEN <<>> ELSE ImagesCandidates(i.preview[1].images)

\* meta = media_metadata.get(media_id) or {}; src = (meta.get("s") or {}).get("u")
MetaUrl(meta, media_id) ==
    IF media_id \in DOMAIN meta THEN meta[media_id] ELSE None

RECURSIVE ItemsCandidates(_, _)
ItemsCandidates(items, meta) ==
    IF items = <<>> THEN <<>>
    ELSE (IF Truthy(MetaUrl(meta, Head(items)))
          THEN <<Unescape(MetaUrl(meta, Head(items)))>> ELSE <<>>)
         \o ItemsCandidates(Tail(items), meta)

\* 3) gallery posts: only when gallery_data and media_metadata are both dicts
GalleryCandidates(i) ==
    IF i.gallery_data = <<>> \/ i.media_metadata = <<>> THEN <<>>
    ELSE ItemsCandidates(i.gallery_data[1].items, i.media_metadata[1])

\* media = info.get("media") or info.get("secure_media")
ChosenMedia(i) == IF i.media # <<>> THEN i.media ELSE i.secure_media

\* 4) reddit-hosted video: the fallback url, not unescaped
VideoCandidates(i) ==
    LET media == ChosenMedia(i)
    IN  IF media = <<>> THEN <<>>
        ELSE IF Truthy(media[1].fallback_url) THEN <<media[1].fallback_url>>
             ELSE <<>>

\* a slip in the order of the four blocks: the gallery block before the preview block
CandidatesGalleryFirst(i) ==
    DirectCandidates(i) \o GalleryCandidates(i) \o PreviewCandidates(i)
    \o VideoCandidates(i)

\* media_urls before deduplication, in the order the code appends
Candidates(i) ==
    DirectCandidates(i) \o PreviewCandidates(i) \o GalleryCandidates(i)
    \o VideoCandidates(i)

\* the deduplication loop: seen-set, first occurrence kept
RECURSIVE DedupeFrom(_, _)
DedupeFrom(us, seen) ==
    IF us = <<>> THEN <<>>
    ELSE IF Head(us) \in seen THEN DedupeFrom(Tail(us), seen)
         ELSE <<Head(us)>> \o DedupeFrom(Tail(us), seen \cup {Head(us)})

\* a slip in the deduplication: the last occurrence kept instead of the first
RECURSIVE DedupeKeepLast(_)
DedupeKeepLast(us) ==
    IF us = <<>> THEN <<>>
    ELSE IF \E k \in 2..Len(us) : us[k] = Head(us)
         THEN DedupeKeepLast(Tail(us))
         ELSE <<Head(us)>> \o DedupeKeepLast(Tail(us))

Dedupe(us) == DedupeFrom(us, {})

ExtractMedia(i) ==
    LET deduped == Dedupe(Candidates(i))
    IN  [media_urls |-> deduped,
         primary_media_url |-> IF deduped # <<>> THEN deduped[1] ELSE None]

-----------------------------------------------------------------------------
(* The bounded family of attribute bags *)

MaxImages == 2

UrlAmp == <<"&","a","m","p",";">>
UrlAnd == <<"&">>
UrlPng == <<"q",".","P","N","G">>

DirectUrls == {None, UrlPng, UrlAnd}
PreviewUrls == {UrlAmp, UrlPng}
VideoUrls == {UrlAmp, UrlAnd}

SeqsUpTo(S, n) == UNION {[1..k -> S] : k \in 0..n}

ImageEntries ==
    [source : {None} \cup PreviewUrls,
     resolutions : {<<>>} \cup {<<u>> : u \in PreviewUrls}]

Previews == {<<>>} \cup {<<[images |-> im]>> : im \in SeqsUpTo(ImageEntries, MaxImages)}

\* gallery_data and media_metadata: absent, or one item "m1" with or without a still
Galleries ==
    {[gallery_data |-> <<>>, media_metadata |-> <<>>],
     [gallery_data |-> <<[items |-> <<"m1">>]>>, media_metadata |-> <<>>],
     [gallery_data |-> <<[items |-> <<"m1">>]>>,
      media_metadata |-> << <<>> >>]}
    \cup {[gallery_data |-> <<[items |-> <<"m1">>]>>,
           media_metadata |-> <<[m \in {"m1"} |-> u]>>] : u \in PreviewUrls}

Medias == {<<>>} \cup {<<[fallback_url |-> f]>> : f \in {None} \cup VideoUrls}

Infos ==
    {[url |-> d, preview |-> p, gallery_data |-> g.gallery_data,
      media_metadata |-> g.media_metadata, media |-> m, secure_media |-> s] :
        d \in DirectUrls, p \in Previews, g \in Galleries,
        m \in Medias, s \in Medias}

NotCalled == [media_urls |-> <<None>>, primary_media_url |-> None]

-----------------------------------------------------------------------------
(* The client: values shared by the entry points *)

\* Optional[int]: None is the empty sequence, the integer n is <<n>>
NoInt == <<>>

NoPage == [children |-> <<>>, after |-> None]

NoDict == [id |-> 0]

\* no child read yet
NoChild == [kind |-> "none", ids |-> <<>>]

\* child.get("kind") and, of a placeholder, data.get("children") or []
Child(kind, child_ids) == [kind |-> kind, ids |-> child_ids]

Min(a, b) == IF a <= b THEN a ELSE b

PageSizeCap == 100

CommentsLimit == 500

\* a slip in the resolution: the client-wide default wins whenever it is set
ResolveFullDefaultWins(arg, default) == default \/ arg = "True"

\* if full is None: full = self.return_full
ResolveFull(arg, default) == IF arg = "None" THEN default ELSE arg = "True"

\* a slip: the cap left out when a budget is set
PageLimitParamUncapped(rem) == IF rem = NoInt THEN PageSizeCap ELSE rem[1]

\* "limit": min(remaining, 100) if remaining is not None else 100
PageLimitParam(rem) == IF rem = NoInt THEN PageSizeCap ELSE Min(rem[1], PageSizeCap)

\* a slip: the cursor never put into the params
PageParamsNoCursor(path, rem, aft) ==
    [path |-> path, limit |-> PageLimitParam(rem), after |-> None]

\* the params of a page request: "after" only when after is truthy
PageParams(path, rem, aft) ==
    [path |-> path, limit |-> PageLimitParam(rem),
     after |-> IF Truthy(aft) THEN aft ELSE None]

\* a slip in the loop's exit: only the missing cursor ends the traversal
StopsOnMissingCursorOnly(page) == ~Truthy(page.after)

\* if not after or not children: break
StopsAfter(page) == ~Truthy(page.after) \/ page.children = <<>>

\* a slip: an error handler that hands the caller what was collected so far
AfterRaisePartial(had, partial) == partial

\* _get raises RedditHTTPError and no entry point catches it: the caller keeps
\* what it had received before the request and receives nothing else
AfterRaise(had, partial) == had

\* sub_dict of search_subreddits
SubredditRecord(child, fl) ==
    IF fl THEN [id |-> child.data.id, raw |-> child.data]
    ELSE [id |-> child.data.id]

\* submission_dict of _listing and of submission, before the raw attachment
SubmissionFields(inf) ==
    [id |-> inf.id,
     media_urls |-> ExtractMedia(inf).media_urls,
     primary_media_url |-> ExtractMedia(inf).primary_media_url]

\* a slip: the full record built afresh around the raw object, the media fields
\* left out
ListingRecordRawOnly(child, fl) ==
    IF fl THEN [id |-> child.data.id, raw |-> child.data]
    ELSE SubmissionFields(child.data)

\* submission_dict of _listing
ListingRecord(child, fl) ==
    IF fl THEN [id |-> child.data.id,
                media_urls |-> SubmissionFields(child.data).media_urls,
                primary_media_url |-> SubmissionFields(child.data).primary_media_url,
                raw |-> child.data]
    ELSE SubmissionFields(child.data)

\* the for loop of search_subreddits over one page: every child is appended, then
\* counted; returned is TRUE when the loop left through `return results`
RECURSIVE SearchChildren(_, _, _, _)
SearchChildren(children, res, rem, fl) ==
    IF children = <<>>
    THEN [results |-> res, remaining |-> rem, returned |-> FALSE]
    ELSE LET res2 == Append(res, SubredditRecord(Head(children), fl))
         IN  IF rem = NoInt
             THEN SearchChildren(Tail(children), res2, rem, fl)
             ELSE IF rem[1] - 1 <= 0
                  THEN [results |-> res2, remaining |-> <<rem[1] - 1>>, returned |-> TRUE]
                  ELSE SearchChildren(Tail(children), res2, <<rem[1] - 1>>, fl)

\* the for loop of _listing over one page: a child that is no t3 is passed over,
\* every other child is yielded, then counted
RECURSIVE ListingChildren(_, _, _, _)
ListingChildren(children, out, rem, fl) ==
    IF children = <<>>
    THEN [yielded |-> out, remaining |-> rem, returned |-> FALSE]
    ELSE IF Head(children).kind # "t3"
         THEN ListingChildren(Tail(children), out, rem, fl)
         ELSE LET out2 == Append(out, ListingRecord(Head(children), fl))
              IN  IF rem = NoInt
                  THEN ListingChildren(Tail(children), out2, rem, fl)
                  ELSE IF rem[1] - 1 <= 0
                       THEN [yielded |-> out2, remaining |-> <<rem[1] - 1>>,
                             returned |-> TRUE]
                       ELSE ListingChildren(Tail(children), out2, <<rem[1] - 1>>, fl)

\* the call with full=False, before it is made
PlainIdle ==
    [pc |-> "idle", remaining |-> NoInt, after |-> None, results |-> <<>>,
     requests |-> <<>>, delivered |-> <<>>]

\* the lines before the loop (search_subreddits, _listing) or before the request
\* (submission), full=False
PlainCalled(lim, at) == [PlainIdle EXCEPT !.pc = at, !.remaining = lim]

\* a request of that call refused: RedditHTTPError leaves the call
PlainRefused(st, params, partial) ==
    [st EXCEPT !.pc = "raised", !.requests = Append(@, params),
               !.delivered = AfterRaise(@, partial)]

\* a request of that call answered, the call going on
PlainRequested(st, params, at) ==
    [st EXCEPT !.pc = at, !.requests = Append(@, params)]

\* one turn of the while loop of search_subreddits with full=False
PlainSearchTurn(st, page) ==
    LET r == SearchChildren(page.children, st.results, st.remaining, FALSE)
        sent == Append(st.requests, PageParams("search", st.remaining, st.after))
    IN  IF r.returned
        THEN [pc |-> "done", remaining |-> r.remaining, after |-> st.after,
              results |-> r.results, requests |-> sent, delivered |-> r.results]
        ELSE IF StopsAfter(page)
             THEN [pc |-> "done", remaining |-> r.remaining, after |-> page.after,
                   results |-> r.results, requests |-> sent, delivered |-> r.results]
             ELSE [pc |-> "loop", remaining |-> r.remaining, after |-> page.after,
                   results |-> r.results, requests |-> sent,
                   delivered |-> st.delivered]

\* one turn of the while loop of _listing with full=False
PlainListingTurn(st, page) ==
    LET r == ListingChildren(page.children, st.delivered, st.remaining, FALSE)
        sent == Append(st.requests, PageParams("listing", st.remaining, st.after))
    IN  IF r.returned
        THEN [pc |-> "done", remaining |-> r.remaining, after |-> st.after,
              results |-> st.results, requests |-> sent, delivered |-> r.yielded]
        ELSE [pc |-> IF StopsAfter(page) THEN "done" ELSE "loop",
              remaining |-> r.remaining, after |-> page.after,
              results |-> st.results, requests |-> sent, delivered |-> r.yielded]

-----------------------------------------------------------------------------
(* The server: what a page request may return *)

MaxLimit == 3
MaxPages == 2
MaxPageLen == 2

\* the budgets a caller passes: none, the small ones, and one above the page cap
Limits == {NoInt} \cup {<<n>> : n \in (0..MaxLimit) \cup {PageSizeCap + 1}}

FullArgs == {"None", "True", "False"}

Digits == <<"1","2","3","4","5","6","7","8","9">>

\* the continuation cursor the server hands out with its n-th page
Cursor(n) == <<"c", Digits[n]>>

\* the attribute bag of the n-th item: odd items are direct image links
ItemData(n) ==
    [id |-> n, url |-> IF n % 2 = 1 THEN UrlPng ELSE UrlAnd, preview |-> <<>>,
     gallery_data |-> <<>>, media_metadata |-> <<>>,
     media |-> <<>>, secure_media |-> IF n % 2 = 1 THEN <<>> ELSE <<[fallback_url |-> UrlAmp]>>]

ItemKinds(o) == IF o = "search" THEN {"t5"} ELSE {"t3", "t1"}

\* the n-th page of a traversal that has handed out `before` items
ServerPages(o, before, n) ==
    {[children |-> [k \in 1..Len(ks) |-> [kind |-> ks[k], data |-> ItemData(before + k)]],
      after |-> a] :
        ks \in SeqsUpTo(ItemKinds(o), MaxPageLen),
        a \in {None, <<>>, Cursor(n)}}

-----------------------------------------------------------------------------
(* SpecMedia *)

\* the client and the call, before any call
ClientIdle ==
    /\ op = "none"
    /\ pc = "idle"
    /\ full_arg = "None"
    /\ full = FALSE
    /\ limit = NoInt
    /\ remaining = NoInt
    /\ after = None
    /\ data = NoPage
    /\ results = <<>>
    /\ requests = <<>>
    /\ status = "none"
    /\ delivered = <<>>
    /\ served = 0
    /\ plain = PlainIdle
    /\ more_limit = NoInt
    /\ more_used = 0
    /\ comments = <<>>
    /\ stack = <<>>
    /\ submission_dict = NoDict
    /\ notes = <<>>
    /\ more_skipped = 0
    /\ last_child = NoChild

\* the throttle of a client that has sent nothing, its clock not followed
ThrottleIdle ==
    /\ now = 0
    /\ last_request_ts = NoInt
    /\ request_interval = 1
    /\ sends = <<>>
    /\ outcomes = <<>>
    /\ last_path = "none"

NoInfo ==
    [url |-> None, preview |-> <<>>, gallery_data |-> <<>>,
     media_metadata |-> <<>>, media |-> <<>>, secure_media |-> <<>>]

InitMedia ==
    /\ info \in Infos
    /\ media_result = NotCalled
    /\ return_full = FALSE
    /\ ClientIdle
    /\ ThrottleIdle

CallExtractMedia ==
    /\ media_result = NotCalled
    /\ media_result' = ExtractMedia(info)
    /\ UNCHANGED <<info, return_full, callVars, walkVars, throttleVars>>

NextMedia == CallExtractMedia

SpecMedia == InitMedia /\ [][NextMedia]_vars

-----------------------------------------------------------------------------
(* search_subreddits and _listing *)

CanCall == pc = "idle"

WalkIdle ==
    /\ more_limit' = NoInt
    /\ more_used' = 0
    /\ comments' = <<>>
    /\ stack' = <<>>
    /\ submission_dict' = NoDict
    /\ notes' = <<>>
    /\ more_skipped' = 0
    /\ last_child' = NoChild

\* the call and the lines before the loop
CallPaged(o) ==
    /\ CanCall
    /\ \E lim \in Limits, fa \in FullArgs :
         /\ op' = o
         /\ pc' = "loop"
         /\ full_arg' = fa
         /\ full' = ResolveFull(fa, return_full)
         /\ limit' = lim
         /\ remaining' = lim
         /\ plain' = PlainCalled(lim, "loop")
    /\ after' = None
    /\ data' = NoPage
    /\ results' = <<>>
    /\ requests' = <<>>
    /\ status' = "none"
    /\ delivered' = <<>>
    /\ served' = 0
    /\ WalkIdle
    /\ UNCHANGED <<mediaVars, throttleVars, return_full>>

CallSearch == CallPaged("search")

CallListing == CallPaged("listing")

\* one turn of the while loop of search_subreddits, the request refused
SearchPageError ==
    /\ op = "search" /\ pc = "loop"
    /\ Len(requests) < MaxPages
    /\ requests' = Append(requests, PageParams("search", remaining, after))
    /\ status' = "error"
    /\ pc' = "raised"
    /\ delivered' = AfterRaise(delivered, results)
    /\ plain' = PlainRefused(plain, PageParams("search", plain.remaining, plain.after),
                             plain.results)
    /\ UNCHANGED <<op, full_arg, full, limit, remaining, after, data, results, served>>
    /\ UNCHANGED <<mediaVars, throttleVars, return_full, walkVars>>

\* one turn of the while loop of search_subreddits, the request answered
SearchPage ==
    /\ op = "search" /\ pc = "loop"
    /\ Len(requests) < MaxPages
    /\ requests' = Append(requests, PageParams("search", remaining, after))
    /\ status' = "ok"
    /\ \E page \in ServerPages(op, served, Len(requests) + 1) :
         LET r == SearchChildren(page.children, results, remaining, full)
         IN  /\ data' = page
             /\ plain' = PlainSearchTurn(plain, page)
             /\ served' = served + Len(page.children)
             /\ results' = r.results
             /\ remaining' = r.remaining
             /\ IF r.returned
                THEN /\ after' = after
                     /\ pc' = "done"
                     /\ delivered' = r.results
                ELSE /\ after' = page.after
                     /\ IF StopsAfter(page)
                        THEN pc' = "done" /\ delivered' = r.results
                        ELSE pc' = "loop" /\ delivered' = delivered
    /\ UNCHANGED <<op, full_arg, full, limit>>
    /\ UNCHANGED <<mediaVars, throttleVars, return_full, walkVars>>

\* one turn of the while loop of _listing, the request refused
ListingPageError ==
    /\ op = "listing" /\ pc = "loop"
    /\ Len(requests) < MaxPages
    /\ requests' = Append(requests, PageParams("listing", remaining, after))
    /\ status' = "error"
    /\ pc' = "raised"
    /\ delivered' = AfterRaise(delivered, delivered)
    /\ plain' = PlainRefused(plain, PageParams("listing", plain.remaining, plain.after),
                             plain.delivered)
    /\ UNCHANGED <<op, full_arg, full, limit, remaining, after, data, results, served>>
    /\ UNCHANGED <<mediaVars, throttleVars, return_full, walkVars>>

\* one turn of the while loop of _listing, the request answered; the caller
\* takes every record the generator yields
ListingPage ==
    /\ op = "listing" /\ pc = "loop"
    /\ Len(requests) < MaxPages
    /\ requests' = Append(requests, PageParams("listing", remaining, after))
    /\ status' = "ok"
    /\ \E page \in ServerPages(op, served, Len(requests) + 1) :
         LET r == ListingChildren(page.children, delivered, remaining, full)
         IN  /\ data' = page
             /\ plain' = PlainListingTurn(plain, page)
             /\ served' = served + Len(page.children)
             /\ delivered' = r.yielded
             /\ remaining' = r.remaining
             /\ IF r.returned
                THEN after' = after /\ pc' = "done"
                ELSE /\ after' = page.after
                     /\ pc' = IF StopsAfter(page) THEN "done" ELSE "loop"
    /\ UNCHANGED <<op, full_arg, full, limit, results>>
    /\ UNCHANGED <<mediaVars, throttleVars, return_full, walkVars>>

-----------------------------------------------------------------------------
(* submission and _flatten_comments *)

MaxMoreLimit == 1
MaxNodes == 3

MoreLimits == {NoInt} \cup {<<k>> : k \in 0..MaxMoreLimit}

T1Prefix == <<"t","1","_">>
T3Prefix == <<"t","3","_">>

\* the parent_id values the server may send: absent, the submission, a comment,
\* and a reference of another type
ParentRefs ==
    {None, <<"t","3","_","s">>, <<"t","1","_","c">>, <<"t","2","_","u">>}

\* the children lists a "more" node may hold
ChildIdLists == {<<>>, <<"a","b">>}

\* link_fullname = link_info.get("name") or f"t3_{link_info['id']}"
LinkFullname(link) == T3Prefix \o <<Digits[link.id]>>

\* a slip in the slice: parent_fullname[2:]
ParentCommentIdShortSlice(pf) ==
    IF Truthy(pf) /\ StartsWith(pf, T1Prefix) THEN SubSeq(pf, 3, Len(pf)) ELSE None

\* parent_comment_id: parent_fullname[3:] when it starts with "t1_", else None
ParentCommentId(pf) ==
    IF Truthy(pf) /\ StartsWith(pf, T1Prefix) THEN SubSeq(pf, 4, Len(pf)) ELSE None

\* is_top_level: True only in the elif branch, when it starts with "t3_"
IsTopLevel(pf) ==
    Truthy(pf) /\ ~StartsWith(pf, T1Prefix) /\ StartsWith(pf, T3Prefix)

\* the dict appended to comments for a t1 child
CommentRecord(d, depth_inner) ==
    [id |-> d.id,
     depth |-> depth_inner,
     parent_fullname |-> d.parent_id,
     parent_id |-> ParentCommentId(d.parent_id),
     in_reply_to |-> ParentCommentId(d.parent_id),
     is_top_level |-> IsTopLevel(d.parent_id)]

\* walk(replies["data"]["children"], depth_inner + 1)
RepliesDepth(depth_inner) == depth_inner + 1

\* a slip: the revealed nodes walked one level deeper
ThingsDepthDeeper(depth_inner) == depth_inner + 1

\* walk(more_things, depth_inner)
ThingsDepth(depth_inner) == depth_inner

\* a slip: the budget never consulted
BudgetNeverExhausted(ml, used) == FALSE

\* a slip in the comparison: more_used > more_limit
BudgetExhaustedOffByOne(ml, used) == ml # NoInt /\ used > ml[1]

\* if more_limit is not None and more_used >= more_limit: continue
BudgetExhausted(ml, used) == ml # NoInt /\ used >= ml[1]

\* the dict submission returns
SubmissionResult(dict, cms, fl, raw) ==
    IF fl
    THEN [id |-> dict.id, media_urls |-> dict.media_urls,
          primary_media_url |-> dict.primary_media_url, comments |-> cms,
          raw_response |-> raw, raw_link |-> raw.children[1].data,
          raw_comments_listing |-> "comments_listing"]
    ELSE [id |-> dict.id, media_urls |-> dict.media_urls,
          primary_media_url |-> dict.primary_media_url, comments |-> cms]

\* the frame of walk(children_inner, depth_inner). anc counts the comments whose
\* replies enclose the list, ph is the depth_inner at which the placeholder stood
\* when the list is one returned by _fetch_more_children (-1 otherwise), fresh
\* marks such a list before its first node is read (it is not empty), revealed
\* marks the lists that lie inside an expansion, path is the place in the tree
\* of the child the loop reads next: the index of every enclosing node in its
\* list, a returned list standing below its placeholder.
Frame(d, a, f, r, p, at) ==
    [depth |-> d, anc |-> a, fresh |-> f, revealed |-> r, ph |-> p, path |-> at]

\* the place of the first child of the list a node holds or stands for
FirstBelow(at) == Append(at, 1)

\* the place of the next child of the same list
NextSibling(at) == [at EXCEPT ![Len(at)] = @ + 1]

\* a slip: the record put in front of the list
EmitInFront(cs, rec) == <<rec>> \o cs

\* comments.append({...})
Emit(cs, rec) == Append(cs, rec)

Top == stack[Len(stack)]

\* the stack once the loop has read the next child of the innermost list
Advanced ==
    [stack EXCEPT ![Len(stack)].fresh = FALSE,
                  ![Len(stack)].path = NextSibling(@)]

CallSubmission ==
    /\ CanCall
    /\ \E ml \in MoreLimits, fa \in FullArgs :
         /\ more_limit' = ml
         /\ full_arg' = fa
         /\ full' = ResolveFull(fa, return_full)
    /\ op' = "submission"
    /\ pc' = "fetch"
    /\ plain' = PlainCalled(NoInt, "fetch")
    /\ limit' = NoInt
    /\ remaining' = NoInt
    /\ after' = None
    /\ data' = NoPage
    /\ results' = <<>>
    /\ requests' = <<>>
    /\ status' = "none"
    /\ delivered' = <<>>
    /\ served' = 0
    /\ more_used' = 0
    /\ comments' = <<>>
    /\ stack' = <<>>
    /\ submission_dict' = NoDict
    /\ notes' = <<>>
    /\ more_skipped' = 0
    /\ last_child' = NoChild
    /\ UNCHANGED <<mediaVars, throttleVars, return_full>>

CommentsParams == [path |-> "comments", limit |-> CommentsLimit, after |-> None]

\* raw = self._get(...) refused
SubmissionFetchError ==
    /\ op = "submission" /\ pc = "fetch"
    /\ requests' = Append(requests, CommentsParams)
    /\ status' = "error"
    /\ pc' = "raised"
    /\ delivered' = AfterRaise(delivered, <<>>)
    /\ plain' = PlainRefused(plain, CommentsParams, <<>>)
    /\ UNCHANGED <<op, full_arg, full, limit, remaining, after, data, results, served>>
    /\ UNCHANGED <<mediaVars, throttleVars, return_full, walkVars>>

\* raw = self._get(...) answered: submission_dict is built and the walk starts
\* on the comments listing at depth 0
SubmissionFetch ==
    /\ op = "submission" /\ pc = "fetch"
    /\ requests' = Append(requests, CommentsParams)
    /\ status' = "ok"
    /\ data' = [children |-> <<[kind |-> "t3", data |-> ItemData(1)]>>, after |-> None]
    /\ submission_dict' = SubmissionFields(ItemData(1))
    /\ stack' = <<Frame(0, 0, FALSE, FALSE, -1, <<1>>)>>
    /\ pc' = "walk"
    /\ plain' = PlainRequested(plain, CommentsParams, "walk")
    /\ UNCHANGED <<op, full_arg, full, limit, remaining, after, results, delivered, served>>
    /\ UNCHANGED <<mediaVars, throttleVars, return_full, more_limit, more_used, comments, notes,
                   more_skipped, last_child>>

Walking == op = "submission" /\ pc = "walk" /\ stack # <<>>

\* The server is followed for MaxNodes nodes, and past them for the placeholders
\* that head one returned list after another (every morechildren response
\* holding a further placeholder) as long as fewer than MaxExpansions
\* expansions were made: more than any budget asks for. A walk that would
\* expand further is not followed.
MaxExpansions == MaxMoreLimit + 1

\* the loop has a placeholder to read
PlaceholderNext == served < MaxNodes \/ Top.fresh

\* the next child is a comment: its record is appended, and its replies, when
\* they are a listing, are walked one level deeper
WalkComment ==
    /\ Walking
    /\ served < MaxNodes
    /\ last_child' = Child("t1", <<>>)
    /\ \E p \in ParentRefs, has_replies \in BOOLEAN :
         /\ comments' = Emit(comments,
                CommentRecord([id |-> served + 1, parent_id |-> p], Top.depth))
         /\ notes' = Append(notes,
                [anc |-> Top.anc, revealed |-> Top.revealed, ph |-> Top.ph,
                 parent_ref |-> p, id |-> served + 1, path |-> Top.path])
         /\ stack' = IF has_replies
                     THEN Append(Advanced,
                              Frame(RepliesDepth(Top.depth), Top.anc + 1, FALSE,
                                    Top.revealed, -1, FirstBelow(Top.path)))
                     ELSE Advanced
    /\ served' = served + 1
    /\ UNCHANGED <<op, pc, full_arg, full, limit, remaining, after, data, results,
                   requests, status, delivered, plain>>
    /\ UNCHANGED <<mediaVars, throttleVars, return_full, more_limit, more_used, submission_dict,
                   more_skipped>>

\* the next child is of another kind: neither branch is taken
WalkOther ==
    /\ Walking
    /\ served < MaxNodes
    /\ last_child' = Child("other", <<>>)
    /\ stack' = Advanced
    /\ served' = served + 1
    /\ UNCHANGED <<op, pc, full_arg, full, limit, remaining, after, data, results,
                   requests, status, delivered, plain>>
    /\ UNCHANGED <<mediaVars, throttleVars, return_full, more_limit, more_used, comments,
                   submission_dict, notes, more_skipped>>

\* the next child is a placeholder and the budget is used up: continue
WalkMoreSkipped ==
    /\ Walking
    /\ PlaceholderNext
    /\ \E ids \in ChildIdLists : last_child' = Child("more", ids)
    /\ BudgetExhausted(more_limit, more_used)
    /\ stack' = Advanced
    /\ served' = served + 1
    /\ more_skipped' = more_skipped + 1
    /\ UNCHANGED <<op, pc, full_arg, full, limit, remaining, after, data, results,
                   requests, status, delivered, plain>>
    /\ UNCHANGED <<mediaVars, throttleVars, return_full, more_limit, more_used, comments,
                   submission_dict, notes>>

\* the next child is a placeholder that holds no child ids: continue
WalkMoreEmpty ==
    /\ Walking
    /\ served < MaxNodes
    /\ last_child' = Child("more", <<>>)
    /\ ~BudgetExhausted(more_limit, more_used)
    /\ stack' = Advanced
    /\ served' = served + 1
    /\ UNCHANGED <<op, pc, full_arg, full, limit, remaining, after, data, results,
                   requests, status, delivered, plain>>
    /\ UNCHANGED <<mediaVars, throttleVars, return_full, more_limit, more_used, comments,
                   submission_dict, notes, more_skipped>>

\* a slip: only the first child id asked for
MoreParamsFirstOnly(ids) ==
    [path |-> "morechildren", link_id |-> LinkFullname(data.children[1].data),
     children |-> <<ids[1]>>, limit_children |-> FALSE, sort |-> "confidence"]

MoreParams(ids) ==
    [path |-> "morechildren", link_id |-> LinkFullname(data.children[1].data),
     children |-> ids, limit_children |-> FALSE, sort |-> "confidence"]

\* a slip: one request for every child id
FetchMoreChildrenOneEach(child_ids) ==
    [k \in 1..Len(child_ids) |-> MoreParams(<<child_ids[k]>>)]

\* the requests _fetch_more_children issues: none for no ids (return []), else
\* the one that asks for all of them
FetchMoreChildren(child_ids) ==
    IF child_ids = <<>> THEN <<>> ELSE <<MoreParams(child_ids)>>

\* the next child is a placeholder with child ids and budget left: more_used is
\* counted, then the request of _fetch_more_children is refused
WalkMoreError ==
    /\ Walking
    /\ served < MaxNodes
    /\ ~BudgetExhausted(more_limit, more_used)
    /\ \E ids \in ChildIdLists \ {<<>>} :
         /\ requests' = requests \o FetchMoreChildren(ids)
         /\ last_child' = Child("more", ids)
         /\ plain' = PlainRefused(plain, MoreParams(ids),
                                  <<SubmissionResult(submission_dict, comments, FALSE, data)>>)
    /\ more_used' = more_used + 1
    /\ served' = served + 1
    /\ status' = "error"
    /\ pc' = "raised"
    /\ delivered' = AfterRaise(delivered, <<SubmissionResult(submission_dict, comments, full, data)>>)
    /\ UNCHANGED <<op, full_arg, full, limit, remaining, after, data, results>>
    /\ UNCHANGED <<mediaVars, throttleVars, return_full, more_limit, comments, stack,
                   submission_dict, notes, more_skipped>>

\* the same, the request answered: the things, when there are any, are walked
\* at the depth of the placeholder
WalkMoreExpand ==
    /\ Walking
    /\ PlaceholderNext
    /\ served < MaxNodes \/ more_used < MaxExpansions
    /\ ~BudgetExhausted(more_limit, more_used)
    /\ \E ids \in ChildIdLists \ {<<>>} :
         /\ requests' = requests \o FetchMoreChildren(ids)
         /\ last_child' = Child("more", ids)
         /\ plain' = PlainRequested(plain, MoreParams(ids), "walk")
    /\ more_used' = more_used + 1
    /\ served' = served + 1
    /\ status' = "ok"
    /\ \E some_things \in BOOLEAN :
         IF some_things
         THEN stack' = Append(Advanced,
                         Frame(ThingsDepth(Top.depth), Top.anc, TRUE, TRUE,
                               Top.depth, FirstBelow(Top.path)))
         ELSE stack' = Advanced
    /\ UNCHANGED <<op, pc, full_arg, full, limit, remaining, after, data, results,
                   delivered>>
    /\ UNCHANGED <<mediaVars, throttleVars, return_full, more_limit, comments, submission_dict,
                   notes, more_skipped>>

\* the innermost list is exhausted: walk returns to its caller; when it was the
\* outermost call, _flatten_comments returns and submission builds its result
WalkEnd ==
    /\ Walking
    /\ ~Top.fresh
    /\ stack' = SubSeq(stack, 1, Len(stack) - 1)
    /\ IF Len(stack) = 1
       THEN /\ pc' = "done"
            /\ submission_dict' = submission_dict
            /\ delivered' = <<SubmissionResult(submission_dict, comments, full, data)>>
            /\ plain' = [plain EXCEPT
                   !.pc = "done",
                   !.delivered = <<SubmissionResult(submission_dict, comments, FALSE, data)>>]
       ELSE UNCHANGED <<pc, submission_dict, delivered, plain>>
    /\ UNCHANGED <<op, full_arg, full, limit, remaining, after, data, results,
                   requests, status, served>>
    /\ UNCHANGED <<mediaVars, throttleVars, return_full, more_limit, more_used, comments, notes,
                   more_skipped, last_child>>

\* the call has returned or raised: its locals are gone, and the caller, done with
\* what it received, is free to call again
CallOver ==
    /\ pc \in {"done", "raised"}
    /\ op' = "none"
    /\ pc' = "idle"
    /\ full_arg' = "None"
    /\ full' = FALSE
    /\ limit' = NoInt
    /\ remaining' = NoInt
    /\ after' = None
    /\ data' = NoPage
    /\ results' = <<>>
    /\ requests' = <<>>
    /\ status' = "none"
    /\ delivered' = <<>>
    /\ served' = 0
    /\ plain' = PlainIdle
    /\ WalkIdle
    /\ UNCHANGED <<mediaVars, throttleVars, return_full>>

-----------------------------------------------------------------------------
(* Spec: one client, one caller, one call at a time *)

Init ==
    /\ info = NoInfo
    /\ media_result = NotCalled
    /\ return_full \in BOOLEAN
    /\ ClientIdle
    /\ ThrottleIdle

Next ==
    \/ CallSearch
    \/ SearchPage
    \/ SearchPageError
    \/ CallListing
    \/ ListingPage
    \/ ListingPageError
    \/ CallSubmission
    \/ SubmissionFetch
    \/ SubmissionFetchError
    \/ WalkComment
    \/ WalkOther
    \/ WalkMoreSkipped
    \/ WalkMoreEmpty
    \/ WalkMoreError
    \/ WalkMoreExpand
    \/ WalkEnd
    \/ CallOver

Spec == Init /\ [][Next]_vars

\* the code of a submission call: the interpreter runs it statement by statement
\* and every request gets its answer or its refusal
SubmissionStep ==
    \/ SubmissionFetch
    \/ SubmissionFetchError
    \/ WalkComment
    \/ WalkOther
    \/ WalkMoreSkipped
    \/ WalkMoreEmpty
    \/ WalkMoreError
    \/ WalkMoreExpand
    \/ WalkEnd

\* a client made with return_full=False
InitRun == Init /\ ~return_full

\* the caller calls submission only
NextRun ==
    \/ CallSubmission
    \/ SubmissionStep
    \/ CallOver

\* submission called on such a client, every call, once made, running on
SpecRun == InitRun /\ [][NextRun]_vars /\ WF_vars(SubmissionStep)

-----------------------------------------------------------------------------
(* Reddit._get and its throttle (SpecThrottle)                              *)
(*                                                                         *)
(* _last_request_ts is read and written by _get alone and has no part in   *)
(* what _get returns, so the clock is followed here, for any sequence of   *)
(* requests from the four call sites, and left out of Spec. Time is in     *)
(* ticks.                                                                  *)

MaxClock == 6
MaxInterval == 2
MaxLatency == 1

Paths == {"search", "listing", "comments", "morechildren"}

\* the sleep of _get: request_interval - elapsed when a timestamp is kept and
\* elapsed < request_interval, else none
Nap(t, last, interval) ==
    IF last # NoInt /\ t - last[1] < interval THEN interval - (t - last[1]) ELSE 0

\* the send times (the outcomes) of the last two requests, the newer last
LastTwo(s, x) == IF s = <<>> THEN <<x>> ELSE <<s[Len(s)], x>>

\* _get up to session.get: now = time.time(), the sleep (which may overrun by
\* `late` ticks), then the request goes out and ends `latency` ticks later
GetSends(path, late, latency, outcome) ==
    LET sent_at == now + Nap(now, last_request_ts, request_interval) + late
    IN  /\ sent_at + latency <= MaxClock
        /\ sends' = LastTwo(sends, sent_at)
        /\ outcomes' = LastTwo(outcomes, outcome)
        /\ last_path' = path
        /\ now' = sent_at + latency

\* session.get returns a response with resp.ok: the timestamp is taken, the
\* JSON returned
GetOk ==
    /\ \E path \in Paths, late \in 0..1, latency \in 0..MaxLatency :
         GetSends(path, late, latency, "ok")
    /\ last_request_ts' = <<now'>>
    /\ UNCHANGED <<request_interval, mediaVars, return_full, callVars, walkVars>>

\* session.get returns a response that is not ok: the timestamp is taken, then
\* RedditHTTPError is raised
GetHttpError ==
    /\ \E path \in Paths, late \in 0..1, latency \in 0..MaxLatency :
         GetSends(path, late, latency, "error")
    /\ last_request_ts' = <<now'>>
    /\ UNCHANGED <<request_interval, mediaVars, return_full, callVars, walkVars>>

\* session.get itself raises (a timeout, a connection reset): the exception
\* leaves _get before the timestamp is taken
GetRaises ==
    /\ \E path \in Paths, late \in 0..1, latency \in 0..MaxLatency :
         GetSends(path, late, latency, "exception")
    /\ UNCHANGED last_request_ts
    /\ UNCHANGED <<request_interval, mediaVars, return_full, callVars, walkVars>>

\* the caller lets time pass between two requests
Tick ==
    /\ now < MaxClock
    /\ now' = now + 1
    /\ UNCHANGED <<last_request_ts, request_interval, sends, outcomes, last_path>>
    /\ UNCHANGED <<mediaVars, return_full, callVars, walkVars>>

InitThrottle ==
    /\ info = NoInfo
    /\ media_result = NotCalled
    /\ return_full = FALSE
    /\ ClientIdle
    /\ now = 0
    /\ last_request_ts = NoInt
    /\ request_interval \in 1..MaxInterval
    /\ sends = <<>>
    /\ outcomes = <<>>
    /\ last_path = "none"

NextThrottle == GetOk \/ GetHttpError \/ GetRaises \/ Tick

SpecThrottle == InitThrottle /\ [][NextThrottle]_vars

-----------------------------------------------------------------------------
(* Claims about _extract_media, checked under SpecMedia *)

SetOf(us) == {us[k] : k \in DOMAIN us}

NoDuplicates(us) == \A a, b \in DOMAIN us : us[a] = us[b] => a = b

FirstIndex(us, u) == CHOOSE k \in DOMAIN us : us[k] = u /\ \A j \in 1..(k-1) : us[j] # u

MediaCalled == media_result # NotCalled

\* C5: media_urls holds no string twice; it holds exactly the candidate URLs, each
\* at the relative position of its first occurrence among the candidates; and
\* primary_media_url is the first element, or None exactly when the list is empty.
C5_DedupFirstOccurrence ==
    MediaCalled =>
        LET m == media_result.media_urls
            c == Candidates(info)
        IN  /\ NoDuplicates(m)
            /\ SetOf(m) = SetOf(c)
            /\ \A a, b \in DOMAIN m :
                   a < b => FirstIndex(c, m[a]) < FirstIndex(c, m[b])
            /\ (m # <<>> => media_result.primary_media_url = m[1])
            /\ (media_result.primary_media_url = None <=> m = <<>>)

\* a duplicate was dropped from between two kept URLs
C5_Witness ==
    /\ MediaCalled
    /\ Len(media_result.media_urls) >= 2
    /\ \E a, b \in DOMAIN Candidates(info) :
           /\ a + 1 < b
           /\ Candidates(info)[a] = Candidates(info)[b]
           /\ Candidates(info)[a + 1] # Candidates(info)[a]

\* the URL sets of the source classes, each after the normalisation of its class
ImagesOf(i) == IF i.preview = <<>> THEN <<>> ELSE i.preview[1].images

DirectSet(i) == SetOf(DirectCandidates(i))

SourceOf(img) == IF Truthy(img.source) THEN {Unescape(img.source)} ELSE {}

ResolutionsOf(img) ==
    {Unescape(img.resolutions[k]) : k \in {j \in DOMAIN img.resolutions : Truthy(img.resolutions[j])}}

SourceSet(i) == UNION {SourceOf(ImagesOf(i)[k]) : k \in DOMAIN ImagesOf(i)}

ResolutionSet(i) == UNION {ResolutionsOf(ImagesOf(i)[k]) : k \in DOMAIN ImagesOf(i)}

GallerySet(i) == SetOf(GalleryCandidates(i))

VideoSet(i) == SetOf(VideoCandidates(i))

\* the first of the five source classes that contributes u
FirstClass(i, u) ==
    IF u \in DirectSet(i) THEN 1
    ELSE IF u \in SourceSet(i) THEN 2
    ELSE IF u \in ResolutionSet(i) THEN 3
    ELSE IF u \in GallerySet(i) THEN 4
    ELSE 5

\* C6 as stated: the five classes direct, preview sources, preview resolutions,
\* gallery, video are never out of order in media_urls.
C6_FiveClassOrder ==
    MediaCalled =>
        \A a, b \in DOMAIN media_result.media_urls :
            a < b => FirstClass(info, media_result.media_urls[a])
                       <= FirstClass(info, media_result.media_urls[b])

\* the first image entry that contributes u, and whether as its source (1) or
\* as one of its resolutions (2)
FirstImage(i, u) ==
    CHOOSE k \in DOMAIN ImagesOf(i) :
        /\ u \in SourceOf(ImagesOf(i)[k]) \cup ResolutionsOf(ImagesOf(i)[k])
        /\ \A j \in 1..(k-1) :
               u \notin SourceOf(ImagesOf(i)[j]) \cup ResolutionsOf(ImagesOf(i)[j])

\* the place of u in the order: direct link (1), preview image k as source or
\* resolution (2, k, part), gallery (3), hosted video (4)
Place(i, u) ==
    IF u \in DirectSet(i) THEN <<1, 0, 0>>
    ELSE IF u \in SourceSet(i) \cup ResolutionSet(i)
         THEN <<2, FirstImage(i, u),
                IF u \in SourceOf(ImagesOf(i)[FirstImage(i, u)]) THEN 1 ELSE 2>>
    ELSE IF u \in GallerySet(i) THEN <<3, 0, 0>>
    ELSE <<4, 0, 0>>

LexLeq(p, q) ==
    \/ p[1] < q[1]
    \/ p[1] = q[1] /\ p[2] < q[2]
    \/ p[1] = q[1] /\ p[2] = q[2] /\ p[3] <= q[3]

\* C6 amended: media_urls is ordered direct link, then the preview images in listed
\* order (each image's source before that image's resolutions), then the gallery
\* items, then the hosted-video fallback.
C6_StageOrder ==
    MediaCalled =>
        \A a, b \in DOMAIN media_result.media_urls :
            a < b => LexLeq(Place(info, media_result.media_urls[a]),
                            Place(info, media_result.media_urls[b]))

\* a resolution of the first image, the source of the second image and a hosted
\* video all contribute to media_urls
C6_Witness ==
    /\ MediaCalled
    /\ Len(ImagesOf(info)) >= 2
    /\ Len(media_result.media_urls) >= 3
    /\ \E u \in SetOf(media_result.media_urls) : Place(info, u)[1] = 4
    /\ \E u \in SetOf(media_result.media_urls) : Place(info, u) = <<2, 2, 1>>
    /\ \E u \in SetOf(media_result.media_urls) : Place(info, u) = <<2, 1, 2>>

-----------------------------------------------------------------------------
(* Claims about the paginated traversals, checked under Spec *)

Paged == op \in {"search", "listing"}

\* C1: with a budget N >= 0 a traversal never produces more than N records,
\* whatever the pages hold.
C1_AtMostLimit ==
    (Paged /\ limit # NoInt) =>
        /\ Len(delivered) <= limit[1]
        /\ Len(results) <= limit[1]

\* C2: a page without a truthy cursor, or without items, ends the traversal at
\* once; a page request other than the first is issued only when the page before
\* it had a cursor and was not empty.
C2_StopsWithoutCursorOrItems ==
    /\ [](Paged /\ status = "ok" /\ (data.after \in {None, <<>>} \/ Len(data.children) = 0)
             => pc = "done")
    /\ [][(Paged /\ Len(requests) >= 1 /\ Len(requests') = Len(requests) + 1)
             => (data.after \notin {None, <<>>} /\ Len(data.children) > 0)]_vars

\* a traversal of two pages or more that ended short of its budget on a page
\* that had items and no cursor
C2_Witness ==
    /\ Paged
    /\ pc = "done"
    /\ limit # NoInt
    /\ Len(delivered) < limit[1]
    /\ Len(requests) >= 2
    /\ Len(data.children) > 0
    /\ data.after \in {None, <<>>}

-----------------------------------------------------------------------------
(* Claims about the submission fetch, checked under Spec *)

MoreRequests == {k \in DOMAIN requests : requests[k].path = "morechildren"}

\* C3: with a budget k >= 0 no more than k placeholders are expanded in one
\* submission fetch, wherever they stand; with k = 0 none is expanded, no
\* morechildren request is issued and every comment emitted is a node of the
\* initial tree.
C3_ExpansionsWithinBudget ==
    (op = "submission" /\ more_limit # NoInt) =>
        /\ more_used <= more_limit[1]
        /\ Cardinality(MoreRequests) <= more_limit[1]
        /\ (more_limit[1] = 0 =>
               /\ more_used = 0
               /\ MoreRequests = {}
               /\ \A k \in DOMAIN notes : ~notes[k].revealed)

\* the budget of one is spent and a placeholder revealed by that expansion is
\* passed over
C3_Witness ==
    /\ op = "submission"
    /\ more_limit = <<1>>
    /\ more_used = 1
    /\ more_skipped >= 1
    /\ Len(stack) >= 2
    /\ Top.revealed

\* C4: the depth of every emitted comment is the number of comments whose replies
\* enclose it, and a comment of a list returned for a placeholder has the depth
\* at which the placeholder stood.
C4_DepthIsNesting ==
    \A k \in DOMAIN comments :
        /\ comments[k].depth = notes[k].anc
        /\ (notes[k].ph # -1 => comments[k].depth = notes[k].ph)

\* a comment revealed by a placeholder that stood among the replies of a comment
C4_Witness ==
    \E k \in DOMAIN comments :
        /\ notes[k].ph = 1
        /\ comments[k].depth = 1
        /\ notes[k].revealed

\* C7: the raw attachments are in the records handed to the caller exactly when
\* the flag resolves to true: the full argument when it is True or False, the
\* client's return_full when it is None.
C7_RawIffResolvedFull ==
    LET wanted == IF full_arg = "None" THEN return_full ELSE full_arg = "True"
    IN  \A k \in DOMAIN delivered :
            IF op = "submission"
            THEN /\ ("raw_response" \in DOMAIN delivered[k]) <=> wanted
                 /\ ("raw_link" \in DOMAIN delivered[k]) <=> wanted
                 /\ ("raw_comments_listing" \in DOMAIN delivered[k]) <=> wanted
            ELSE ("raw" \in DOMAIN delivered[k]) <=> wanted

\* a submission returned with full=False by a client whose default is true
C7_Witness ==
    /\ op = "submission"
    /\ pc = "done"
    /\ full_arg = "False"
    /\ return_full
    /\ delivered # <<>>

IsRefOfType(ref, digit) ==
    /\ ref # None
    /\ Len(ref) >= 3
    /\ ref[1] = "t" /\ ref[2] = digit /\ ref[3] = "_"

\* C8: parent_fullname is the upstream reference as sent; a comment reference
\* "t1_<x>" gives parent_id "<x>" and is_top_level false; a submission reference
\* "t3_..." gives no parent_id and is_top_level true; any other or missing
\* reference gives no parent_id and is_top_level false.
C8_ParentLinkage ==
    \A k \in DOMAIN comments :
        LET ref == notes[k].parent_ref
            rec == comments[k]
        IN  /\ rec.parent_fullname = ref
            /\ IF IsRefOfType(ref, "1")
               THEN /\ rec.parent_id = [j \in 1..(Len(ref) - 3) |-> ref[j + 3]]
                    /\ ~rec.is_top_level
               ELSE IF IsRefOfType(ref, "3")
                    THEN rec.parent_id = None /\ rec.is_top_level
                    ELSE rec.parent_id = None /\ ~rec.is_top_level

\* a reply to a comment, a reply to the submission and a comment with another
\* reference were all emitted
C8_Witness ==
    /\ \E k \in DOMAIN comments : comments[k].parent_id = <<"c">>
    /\ \E k \in DOMAIN comments : comments[k].is_top_level
    /\ \E k \in DOMAIN comments :
           notes[k].parent_ref = <<"t","2","_","u">> /\ comments[k].parent_id = None

\* C10: a refused request ends the operation at once: the call is raised in the
\* step that issued the request, that step hands the caller nothing, a raised
\* search or submission has handed over nothing at all, and no request follows
\* in that call.
C10_ErrorAbortsOperation ==
    /\ [](status = "error" => pc = "raised")
    /\ []((pc = "raised" /\ op \in {"search", "submission"}) => delivered = <<>>)
    /\ [][(pc # "raised" /\ pc' = "raised")
             => (delivered' = delivered /\ Len(requests') = Len(requests) + 1)]_vars
    /\ [][pc = "raised" => (pc' = "idle" /\ requests' = <<>>)]_vars

\* a search refused on a later page, with records of earlier pages collected
C10_Witness ==
    /\ op = "search"
    /\ pc = "raised"
    /\ Len(results) >= 1
    /\ Len(requests) >= 2

-----------------------------------------------------------------------------
(* Claims about the throttle, checked under SpecThrottle *)

\* C9: any two consecutive requests go out at least request_interval apart,
\* however the earlier one ended.
C9_MinimumInterval ==
    Len(sends) = 2 => sends[2] - sends[1] >= request_interval

\* what the code does keep: the interval after every request that got a response,
\* successful or not
ThrottleAfterResponse ==
    (Len(sends) = 2 /\ outcomes[1] \in {"ok", "error"}) =>
        sends[2] - sends[1] >= request_interval

-----------------------------------------------------------------------------
(* Claims about the three entry points, continued (Spec) *)

RawFields == {"raw", "raw_response", "raw_link", "raw_comments_listing"}

WithoutRaw(rec) == [f \in (DOMAIN rec) \ RawFields |-> rec[f]]

\* C11: the raw attachment is purely additive: against the same responses the
\* call made with full=False stands where this call stands, has issued the same
\* requests in the same order, and has handed its caller the records of this
\* call less their raw fields.
C11_RawIsAdditive ==
    /\ plain.pc = pc
    /\ plain.requests = requests
    /\ Len(plain.delivered) = Len(delivered)
    /\ \A k \in DOMAIN delivered : WithoutRaw(delivered[k]) = plain.delivered[k]

\* a listing with full=True that has yielded records of two pages
C11_Witness ==
    /\ op = "listing"
    /\ full
    /\ Len(requests) = 2
    /\ Len(delivered) >= 2
    /\ "raw" \in DOMAIN delivered[1]

\* the records the traversal has produced so far
Produced == IF op = "search" THEN results ELSE delivered

RecordOf(child) ==
    IF op = "search" THEN SubredditRecord(child, full) ELSE ListingRecord(child, full)

FirstOf(seq, n) == SubSeq(seq, 1, Min(n, Len(seq)))

\* a step in which a page request of a traversal is answered
PageAnswered ==
    /\ op \in {"search", "listing"}
    /\ Len(requests') = Len(requests) + 1
    /\ status' = "ok"

\* C12: the records produced are the first N items of the concatenation of the
\* fetched pages: every answered page adds the records of all its items, in
\* order, up to the item that brings the number produced to the budget N.
C12_FirstNOfFetched ==
    [][PageAnswered =>
          LET all == [k \in 1..Len(data'.children) |-> RecordOf(data'.children[k])]
              room == IF limit = NoInt THEN Len(all) ELSE limit[1] - Len(Produced)
          IN  Produced' = Produced \o FirstOf(all, room)]_vars

\* C13: every page request asks for min(budget left, 100) items, the budget left
\* being the limit less the records produced so far, and for 100 when there is
\* no budget: never more than 100, never more than the budget still allows.
C13_PageSize ==
    [][(op \in {"search", "listing"} /\ Len(requests') = Len(requests) + 1) =>
          LET sent == requests'[Len(requests')]
          IN  IF limit = NoInt
              THEN sent.limit = PageSizeCap
              ELSE /\ sent.limit = Min(limit[1] - Len(Produced), PageSizeCap)
                   /\ sent.limit <= PageSizeCap
                   /\ sent.limit <= limit[1] - Len(Produced)]_vars

\* a budget above the cap: the first request asks for the cap, the second, two
\* records later, for what the budget still allows
C13_Witness ==
    /\ op \in {"search", "listing"}
    /\ limit = <<PageSizeCap + 1>>
    /\ Len(requests) = 2
    /\ requests[1].limit = PageSizeCap
    /\ requests[2].limit = PageSizeCap - 1

\* C14: the first page request of a traversal carries no cursor, and every later
\* one carries the cursor that came with the page fetched just before it.
C14_CursorThreading ==
    [][(op \in {"search", "listing"} /\ Len(requests') = Len(requests) + 1) =>
          LET sent == requests'[Len(requests')]
          IN  IF requests = <<>>
              THEN sent.after = None
              ELSE Truthy(data.after) /\ sent.after = data.after]_vars

\* a second page was requested with the cursor of the first
C14_Witness ==
    /\ op \in {"search", "listing"}
    /\ Len(requests) = 2
    /\ requests[1].after = None
    /\ requests[2].after = Cursor(1)

-----------------------------------------------------------------------------
(* Claims about the comment walk, continued (Spec) *)

\* where the node of the comment with this id stood in the tree
PathOf(id) == notes[CHOOSE k \in DOMAIN notes : notes[k].id = id].path

\* pre-order on places: a node comes before the nodes below it, and the nodes
\* at and below an earlier child of a list before those at and below a later one
PathBefore(a, b) ==
    \/ Len(a) < Len(b) /\ \A i \in 1..Len(a) : a[i] = b[i]
    \/ \E i \in 1..Min(Len(a), Len(b)) :
           a[i] < b[i] /\ \A j \in 1..(i - 1) : a[j] = b[j]

\* C15: the flat list is in pre-order: a comment precedes the comments of its
\* replies, these precede its next sibling, siblings keep their listed order,
\* and the comments a placeholder was expanded into stand where the placeholder
\* stood, after what was listed before it and before what was listed after it.
C15_PreOrder ==
    \A j, k \in DOMAIN comments :
        j < k => PathBefore(PathOf(comments[j].id), PathOf(comments[k].id))

\* a comment revealed by the first node, a placeholder, then the comment listed
\* after that placeholder
C15_Witness ==
    /\ Len(comments) = 2
    /\ notes[1].revealed
    /\ PathOf(comments[1].id) = <<1, 1>>
    /\ PathOf(comments[2].id) = <<2>>


IsMoreRequest(r) == r.path = "morechildren"

\* C16: _fetch_more_children issues one request for a list of ids and none for
\* an empty list; so in a submission fetch the morechildren requests are as
\* many as the budget units consumed, and with a budget k at most 1 + k
\* requests are issued in all.
C16_OneRequestPerExpansion ==
    (op = "submission" /\ pc \in {"walk", "done", "raised"}) =>
        /\ FetchMoreChildren(<<>>) = <<>>
        /\ (data # NoPage =>
               \A ids \in ChildIdLists \ {<<>>} : Len(FetchMoreChildren(ids)) = 1)
        /\ Len(SelectSeq(requests, IsMoreRequest)) = more_used
        /\ Len(requests) = 1 + more_used
        /\ (more_limit # NoInt => Len(requests) <= 1 + more_limit[1])

\* a fetch with a budget of one that has spent it on a placeholder holding two ids
C16_Witness ==
    /\ op = "submission"
    /\ pc = "done"
    /\ more_limit = <<1>>
    /\ more_used = 1
    /\ Len(requests) = 2
    /\ requests[2].children = <<"a", "b">>


\* a step of walk in which the loop reads a placeholder
MeetsPlaceholder ==
    /\ Walking
    /\ served' = served + 1
    /\ last_child'.kind = "more"

\* the placeholder just read takes one unit of the budget and is handed to
\* _fetch_more_children with the ids it holds
Expanded ==
    /\ more_used' = more_used + 1
    /\ Len(requests') = Len(requests) + Len(FetchMoreChildren(last_child'.ids))
    /\ \A k \in (Len(requests) + 1)..Len(requests') :
           /\ requests'[k].path = "morechildren"
           /\ requests'[k].children = last_child'.ids

\* the placeholder just read is passed over: nothing is consumed, requested,
\* emitted or walked
PassedOver ==
    /\ more_used' = more_used
    /\ requests' = requests
    /\ comments' = comments
    /\ stack' = Advanced

\* C17 as claimed: every placeholder met with budget left consumes one unit and
\* is handed to the More-Fetcher, however many ids it holds; every placeholder
\* met with the budget exhausted is passed over.
C17_EveryPlaceholderConsumes ==
    [][MeetsPlaceholder =>
          IF BudgetExhausted(more_limit, more_used) THEN PassedOver ELSE Expanded]_vars

\* C17 as amended: the same for the placeholders that hold at least one id; a
\* placeholder that holds none is passed over like one met without budget.
C17_NonEmptyPlaceholderConsumes ==
    [][MeetsPlaceholder =>
          IF BudgetExhausted(more_limit, more_used) \/ last_child'.ids = <<>>
          THEN PassedOver
          ELSE Expanded /\ Len(requests') = Len(requests) + 1]_vars

\* one placeholder was expanded, and the placeholder read last, met with budget
\* left and holding no ids, took nothing
C17_Witness ==
    /\ op = "submission"
    /\ pc = "walk"
    /\ more_limit = NoInt
    /\ more_used = 1
    /\ Len(requests) = 2
    /\ last_child = Child("more", <<>>)


\* C18: in the list a submission fetch returns, a comment has depth 0 exactly
\* when its is_top_level is true, the comments revealed by expanding a
\* top-level placeholder included.
C18_DepthZeroIffTopLevel ==
    (op = "submission" /\ pc = "done") =>
        \A k \in DOMAIN delivered[1].comments :
            LET c == delivered[1].comments[k]
            IN  (c.depth = 0) <=> c.is_top_level

-----------------------------------------------------------------------------
(* Claims about _extract_media, continued (SpecMedia) *)

\* C19: the fallback url of a hosted video held by media or by secure_media is
\* in media_urls, also when media is there without one and secure_media holds it.
C19_VideoFallbackListed ==
    MediaCalled =>
        \A m \in {info.media, info.secure_media} :
            (m # <<>> /\ Truthy(m[1].fallback_url)) =>
                m[1].fallback_url \in SetOf(media_result.media_urls)

-----------------------------------------------------------------------------
(* Claims about submission running on (SpecRun) *)

\* C20: with a finite expansion budget a submission fetch, once started, comes to
\* its end: it returns the record or it raises, also when every morechildren
\* response holds a further placeholder.
C20_SubmissionTerminates ==
    (op = "submission" /\ pc = "fetch" /\ more_limit # NoInt)
        ~> (op = "submission" /\ pc \in {"done", "raised"})

\* a fetch with a budget of one has returned, having met a further placeholder in
\* the response to its one expansion, past the nodes the server is followed for
C20_Witness ==
    /\ op = "submission"
    /\ pc = "done"
    /\ more_limit = <<1>>
    /\ more_used = 1
    /\ more_skipped = 1
    /\ served > MaxNodes
    /\ last_child.kind = "more"

-----------------------------------------------------------------------------
(* Claims about the page loops, continued (Spec) *)

\* C21: with a budget N >= 1 a traversal by search_subreddits or by hot/new/top
\* issues at most N page requests, whatever the server returns.
C21_AtMostNPageRequests ==
    (op \in {"search", "listing"} /\ limit # NoInt /\ limit[1] >= 1) =>
        Len(requests) <= limit[1]

====
